---- MODULE Spec2Model ----
(***************************************************************************)
(* Model of src/src/App.tsx: the React component App of the image          *)
(* converter.  The state is the component's useState cells, the object-URL *)
(* store of the page, and one record per invocation of convertImage        *)
(* holding the locals of its closure (image, canvas, captured file and     *)
(* format) and its position at the two awaits.                             *)
(***************************************************************************)
EXTENDS Integers, Sequences, FiniteSets, TLC

(* ---------- bounds ---------- *)
MaxConversions == 3
MaxDim == 2

(* ---------- configuration named by the specification only ---------- *)
MaxPixelCount == 2

(* ---------- ImageFormat, App.tsx:5 ; strings are sequences of characters ---------- *)
JPEG == <<"i","m","a","g","e","/","j","p","e","g">>
PNG == <<"i","m","a","g","e","/","p","n","g">>
WEBP == <<"i","m","a","g","e","/","w","e","b","p">>
GIF == <<"i","m","a","g","e","/","g","i","f">>
BMP == <<"i","m","a","g","e","/","b","m","p">>
ImageFormat == {JPEG, PNG, WEBP, GIF, BMP}

(* String.prototype.split(sep) for a one-character separator *)
RECURSIVE SplitFrom(_, _, _, _)
SplitFrom(s, sep, i, cur) ==
    IF i > Len(s) THEN <<cur>>
    ELSE IF s[i] = sep THEN <<cur>> \o SplitFrom(s, sep, i + 1, <<>>)
    ELSE SplitFrom(s, sep, i + 1, Append(cur, s[i]))

Split(s, sep) == SplitFrom(s, sep, 1, <<>>)

(* the template literal `converted.${fmt.split('/')[1]}` (0-based index 1) *)
ConvertedName(fmt) == <<"c","o","n","v","e","r","t","e","d",".">> \o Split(fmt, "/")[2]

(* ---------- values ---------- *)
Null == <<>>
Some(x) == <<x>>

(* A File handed over by the dropzone: whether the browser can decode it,  *)
(* its natural size, and whether some pixel has alpha < 255.  The files    *)
(* tried are one that does not decode and images of every width up to      *)
(* MaxDim (width 0: no pixels) and height MaxDim, opaque and not.          *)
Files ==
    {[decodable |-> FALSE, width |-> 0, height |-> 0, hasAlpha |-> FALSE]}
    \cup {[decodable |-> TRUE, width |-> w, height |-> MaxDim, hasAlpha |-> a] :
            w \in 0..MaxDim, a \in BOOLEAN}

(* acceptedFiles of onDrop; the dropzone is configured multiple: false *)
AcceptedFileLists == {<<>>} \cup {<<f>> : f \in Files}

ConvIds == 1..MaxConversions

(* A URL made by URL.createObjectURL: its identity and the resource it      *)
(* resolves to, which the URL store never changes.                         *)
ObjectURL(id, resource) == [id |-> id, resource |-> Some(resource)]
NoURL == [id |-> 0, resource |-> Null]

(* new Image() *)
NewImage == [src |-> NoURL, state |-> "unset", width |-> 0, height |-> 0]

(* document.createElement('canvas'): the default 300x150 transparent bitmap *)
NewCanvas == [width |-> 300, height |-> 150, drawn |-> Null]

(* an invocation of convertImage that has not happened yet *)
IdleConv ==
    [pc |-> "Idle", selectedFile |-> Null, targetFormat |-> Null,
     image |-> NewImage, canvas |-> NewCanvas,
     toBlobInvoked |-> FALSE, toBlobType |-> Null, toBlobCallback |-> "none",
     result |-> Null]

VARIABLES isConverting, selectedFile, convertedImage, targetFormat,
          conv, started, objectURLs

vars == <<isConverting, selectedFile, convertedImage, targetFormat,
          conv, started, objectURLs>>

(* useState initial values, App.tsx:14-17; no object URL exists yet *)
Init ==
    /\ isConverting = FALSE
    /\ selectedFile = Null
    /\ convertedImage = Null
    /\ targetFormat = PNG
    /\ conv = [c \in ConvIds |-> IdleConv]
    /\ started = 0
    /\ objectURLs = {}

InFlight(c) == conv[c].pc \in {"Decoding", "Encoding"}
Finished(c) == conv[c].pc \in {"Done", "Failed"}

(* URL.createObjectURL: a fresh id.  objectURLs is the set of live ids; an *)
(* id leaves it only through URL.revokeObjectURL, which App.tsx never      *)
(* calls, so the ids handed out so far are exactly the live ones.          *)
NewURLId == Cardinality(objectURLs) + 1

(* The locals of an invocation that has returned are unreachable; what is  *)
(* kept of it is its outcome and the ids of the URLs it created.           *)
Released(r) ==
    [IdleConv EXCEPT
        !.pc = r.pc,
        !.image = [NewImage EXCEPT !.src = [id |-> r.image.src.id, resource |-> Null],
                                   !.state = r.image.state],
        !.toBlobInvoked = r.toBlobInvoked,
        !.toBlobCallback = r.toBlobCallback,
        !.result = IF r.result = Null THEN Null
                   ELSE Some([url |-> [id |-> r.result[1].url.id, resource |-> Null],
                              format |-> Null])]

(* ---------- onDrop, App.tsx:19-24 ---------- *)
onDrop(acceptedFiles) ==
    /\ IF Len(acceptedFiles) > 0
       THEN /\ selectedFile' = Some(acceptedFiles[1])
            /\ convertedImage' = Null
       ELSE UNCHANGED <<selectedFile, convertedImage>>
    /\ UNCHANGED <<isConverting, targetFormat, conv, started, objectURLs>>

(* ---------- the format <select>, App.tsx:108-125 ---------- *)
setTargetFormat(value) ==
    /\ selectedFile # Null
    /\ value # targetFormat
    /\ targetFormat' = value
    /\ UNCHANGED <<isConverting, selectedFile, convertedImage, conv, started, objectURLs>>

(* ---------- the Convert button, App.tsx:127-130 ---------- *)
ButtonNeverDisabled == FALSE

ButtonDisabled == isConverting

(* ---------- convertImage up to the first await, App.tsx:34-47 ---------- *)
convertImage ==
    /\ ~ButtonDisabled
    /\ started < MaxConversions
    /\ IF selectedFile = Null
       THEN UNCHANGED vars
       ELSE LET c == started + 1
                url == ObjectURL(NewURLId, selectedFile[1])
            IN /\ started' = c
               /\ isConverting' = TRUE
               /\ objectURLs' = objectURLs \cup {url.id}
               /\ conv' = [d \in ConvIds |->
                            IF d = c
                            THEN [IdleConv EXCEPT
                                    !.pc = "Decoding",
                                    !.selectedFile = selectedFile,
                                    !.targetFormat = targetFormat,
                                    !.image = [NewImage EXCEPT !.src = url,
                                                               !.state = "loading"]]
                            ELSE IF Finished(d) THEN Released(conv[d])
                            ELSE conv[d]]
               /\ UNCHANGED <<selectedFile, convertedImage, targetFormat>>

(* ---------- canvas.width = image.width; canvas.height = image.height; ---------- *)
(* ---------- ctx?.drawImage(image, 0, 0), App.tsx:49-51               ---------- *)
CanvasLeftAtDefault(canvas, image) == [canvas EXCEPT !.drawn = image.src.resource]

DrawOnCanvas(canvas, image) ==
    [width |-> image.width, height |-> image.height, drawn |-> image.src.resource]

(* targetFormat as convertImage reads it, App.tsx:56 and 61: the value of  *)
(* the render whose closure this invocation is                             *)
LatestTargetFormat(c) == targetFormat

ClosureTargetFormat(c) == conv[c].targetFormat

(* ---------- catch / finally, App.tsx:63-67 ---------- *)
Fail(c, r) ==
    /\ conv' = [conv EXCEPT ![c] = [r EXCEPT !.pc = "Failed"]]
    /\ isConverting' = FALSE
    /\ UNCHANGED <<selectedFile, convertedImage, targetFormat, started, objectURLs>>

(* ---------- after the first await: App.tsx:49-56, up to the second await ---------- *)
StartEncode(c, r) ==
    /\ conv' = [conv EXCEPT ![c] =
                 [r EXCEPT !.pc = "Encoding",
                           !.canvas = DrawOnCanvas(r.canvas, r.image),
                           !.toBlobInvoked = TRUE,
                           !.toBlobType = ClosureTargetFormat(c)]]
    /\ UNCHANGED <<isConverting, selectedFile, convertedImage, targetFormat,
                   started, objectURLs>>

(* ---------- image.onload = resolve, App.tsx:44 ---------- *)
ImageOnload(c) ==
    /\ conv[c].pc = "Decoding"
    /\ conv[c].image.src.resource[1].decodable
    /\ LET f == conv[c].image.src.resource[1]
           r == [conv[c] EXCEPT !.image.state = "loaded",
                                !.image.width = f.width,
                                !.image.height = f.height]
       IN StartEncode(c, r)

(* ---------- image.onerror = reject, App.tsx:45 ---------- *)
OnerrorResolves == "resolved"

OnerrorSettlement == "rejected"

ImageOnerror(c) ==
    /\ conv[c].pc = "Decoding"
    /\ ~conv[c].image.src.resource[1].decodable
    /\ LET r == [conv[c] EXCEPT !.image.state = "error"]
       IN IF OnerrorSettlement = "rejected" THEN Fail(c, r) ELSE StartEncode(c, r)

(* ---------- the platform encoder behind canvas.toBlob:                 ---------- *)
(* ---------- no blob for a bitmap without pixels                        ---------- *)
EncodeCanvas(canvas, type) ==
    IF canvas.width * canvas.height = 0
    THEN Null
    ELSE Some([source |-> canvas.drawn, requestedType |-> type,
               width |-> canvas.width, height |-> canvas.height])

(* ---------- the toBlob callback and the rest of convertImage, App.tsx:53-67 ---------- *)
ToBlobCallback(c) ==
    /\ conv[c].pc = "Encoding"
    /\ conv[c].toBlobCallback = "none"
    /\ LET blob == EncodeCanvas(conv[c].canvas, conv[c].toBlobType)
       IN IF blob # Null
          THEN LET result == [url |-> ObjectURL(NewURLId, blob[1]),
                              format |-> ClosureTargetFormat(c)]
               IN /\ objectURLs' = objectURLs \cup {result.url.id}
                  /\ convertedImage' = Some(result)
                  /\ isConverting' = FALSE
                  /\ conv' = [conv EXCEPT ![c].pc = "Done",
                                          ![c].toBlobCallback = "blob",
                                          ![c].result = Some(result)]
                  /\ UNCHANGED <<selectedFile, targetFormat, started>>
          ELSE /\ conv' = [conv EXCEPT ![c].toBlobCallback = "null"]
               /\ UNCHANGED <<isConverting, selectedFile, convertedImage, targetFormat,
                              started, objectURLs>>

(* ---------- the download link, App.tsx:154-161 ---------- *)
DownloadOffered == convertedImage # Null
DownloadName == ConvertedName(targetFormat)

Next ==
    \/ \E acceptedFiles \in AcceptedFileLists : onDrop(acceptedFiles)
    \/ \E value \in ImageFormat : setTargetFormat(value)
    \/ convertImage
    \/ \E c \in ConvIds : ImageOnload(c)
    \/ \E c \in ConvIds : ImageOnerror(c)
    \/ \E c \in ConvIds : ToBlobCallback(c)

Spec == Init /\ [][Next]_vars

(* The browser delivers load/error events and toBlob callbacks. *)
FairSpec ==
    /\ Spec
    /\ \A c \in ConvIds : WF_vars(ImageOnload(c))
    /\ \A c \in ConvIds : WF_vars(ImageOnerror(c))
    /\ \A c \in ConvIds : WF_vars(ToBlobCallback(c))

TypeOK ==
    /\ isConverting \in BOOLEAN
    /\ selectedFile \in {Null} \cup {Some(f) : f \in Files}
    /\ targetFormat \in ImageFormat
    /\ started \in 0..MaxConversions
    /\ objectURLs \subseteq 1..(2 * MaxConversions)
    /\ \A c \in ConvIds : conv[c].pc \in {"Idle", "Decoding", "Encoding", "Done", "Failed"}

(* an invocation whose locals are still in the model (not Released) *)
Held(c) == conv[c].selectedFile # Null

(* ======================= claims ======================= *)

(* C1: every conversion that convertImage started eventually ends in Done  *)
(* or Failed with isConverting back to false; in particular it does not    *)
(* stay in Encoding when toBlob calls back without a blob.                 *)
C1_EveryConversionEnds ==
    \A c \in ConvIds : InFlight(c) ~> (Finished(c) /\ ~isConverting)

(* C2: when image.onerror fired for a conversion, toBlob was never invoked *)
(* for it, it never set convertedImage and it ended in Failed; and toBlob  *)
(* is invoked only for a conversion whose image loaded.                    *)
C2_DecodeFailureAborts ==
    \A c \in ConvIds :
        /\ conv[c].image.state = "error" =>
              /\ ~conv[c].toBlobInvoked
              /\ conv[c].result = Null
              /\ conv[c].pc = "Failed"
        /\ conv[c].toBlobInvoked => conv[c].image.state = "loaded"
        /\ conv[c].result # Null => conv[c].image.state = "loaded"

C2_Witness ==
    \E c, d \in ConvIds :
        /\ conv[c].image.state = "error" /\ conv[c].pc = "Failed"
        /\ conv[d].image.state = "loaded" /\ conv[d].toBlobInvoked

(* C3: whenever a result is offered for download, the download name is     *)
(* converted.<ext> with <ext> taken from the format recorded in the result *)
(* (convertedImage.format).                                                *)
C3_DownloadNameOfResultFormat ==
    DownloadOffered => DownloadName = ConvertedName(convertedImage[1].format)

(* C4: an image whose width*height is above the pixel ceiling is rejected  *)
(* before the canvas is sized to it and drawn with it.                     *)
C4_OversizedRejected ==
    \A c \in ConvIds :
        (conv[c].image.state = "loaded"
            /\ conv[c].image.width * conv[c].image.height > MaxPixelCount)
        => (conv[c].pc = "Failed" /\ conv[c].canvas.drawn = Null)

(* C5: a conversion encodes its own file with the format selected when it  *)
(* started and records that format in its result, whatever file or format  *)
(* is selected meanwhile.                                                  *)
C5_OwnFileAndStartFormat ==
    \A c \in ConvIds :
        Held(c) =>
          /\ conv[c].image.src.resource = conv[c].selectedFile
          /\ conv[c].toBlobInvoked =>
                /\ conv[c].canvas.drawn = conv[c].selectedFile
                /\ conv[c].toBlobType = conv[c].targetFormat
          /\ conv[c].result # Null =>
                /\ conv[c].result[1].format = conv[c].targetFormat
                /\ conv[c].result[1].url.resource[1].requestedType = conv[c].targetFormat
                /\ conv[c].result[1].url.resource[1].source = conv[c].selectedFile

C5_Witness ==
    \E c \in ConvIds :
        /\ conv[c].pc = "Done"
        /\ convertedImage = conv[c].result
        /\ conv[c].targetFormat # targetFormat
        /\ conv[c].selectedFile # selectedFile

(* C6: a result encoded as JPEG carries alphaDropped, true exactly when    *)
(* the source raster had a pixel with alpha < 255.                         *)
C6_AlphaDroppedFlag ==
    (convertedImage # Null /\ convertedImage[1].format = JPEG) =>
        /\ "alphaDropped" \in DOMAIN convertedImage[1]
        /\ convertedImage[1].alphaDropped
              = convertedImage[1].url.resource[1].source[1].hasAlpha

(* C7: the raster handed to the encoder, and the blob it yields, have the  *)
(* width and height of the decoded source image.                           *)
C7_RasterHasSourceSize ==
    \A c \in ConvIds :
        (Held(c) /\ conv[c].image.state = "loaded") =>
          /\ conv[c].image.width = conv[c].selectedFile[1].width
          /\ conv[c].image.height = conv[c].selectedFile[1].height
          /\ conv[c].toBlobInvoked =>
                /\ conv[c].canvas.width = conv[c].image.width
                /\ conv[c].canvas.height = conv[c].image.height
          /\ conv[c].result # Null =>
                /\ conv[c].result[1].url.resource[1].width = conv[c].selectedFile[1].width
                /\ conv[c].result[1].url.resource[1].height = conv[c].selectedFile[1].height

C7_Witness ==
    \E c \in ConvIds :
        /\ conv[c].pc = "Done"
        /\ conv[c].result # Null
        /\ conv[c].selectedFile[1].width # conv[c].selectedFile[1].height
        /\ conv[c].result[1].url.resource[1].width = conv[c].selectedFile[1].width

(* C8: a result that is shown was converted from the selected file.        *)
C8_ResultOfSelectedFile ==
    convertedImage # Null => convertedImage[1].url.resource[1].source = selectedFile

(* C9: isConverting is true exactly while a conversion is in flight, at    *)
(* most one conversion is in flight, and without a selected file           *)
(* convertImage starts nothing.                                            *)
C9_IsConvertingIffInFlight ==
    /\ isConverting <=> (\E c \in ConvIds : InFlight(c))
    /\ Cardinality({c \in ConvIds : InFlight(c)}) <= 1
    /\ selectedFile = Null => (started = 0 /\ ~isConverting)

C9_Witness ==
    /\ ~isConverting
    /\ \E c, d \in ConvIds : conv[c].pc = "Done" /\ conv[d].pc = "Failed"

(* C10: once a conversion has finished, the object URL it created for its  *)
(* source file is no longer live.                                          *)
C10_SourceURLDiscarded ==
    \A c \in ConvIds : Finished(c) => conv[c].image.src.id \notin objectURLs
====
